---- MODULE Spec2Model ----
(***************************************************************************)
(* mongoose-intl: a schema plugin that turns a String field marked `intl`  *)
(* into one stored sub-field per language plus two virtuals, and resolves  *)
(* the current language per document, per schema and per connection.       *)
(* Modelled from src/lib/mongoose-intl.js (lines 1-181).                   *)
(***************************************************************************)
EXTENDS Integers, Sequences, FiniteSets, TLC

VARIABLES
    paths,          \* schema.paths: per schema, the ordered list of concrete schema types
    virtuals,       \* schema.virtuals: per schema, the virtual paths with the object their closure captured
    heap,           \* the objects created by `schema.options.mongooseIntl = {}`, in creation order
    schemaOptions,  \* schema.options.mongooseIntl: per schema, index of its object in heap (0: none)
    methods,        \* per schema: language methods, statics and the init listener are registered
    docLanguage,    \* per document: this.docLanguage
    raw,            \* per document and translatable field: the stored per-language object
    exposes,        \* per document: the instance exposes the schema's methods (getLanguage, ...)
    models,         \* per connection: connection.models, in the order the models were bound
    connSetter,     \* per connection: connection.setDefaultLanguage is defined
    alias,          \* mongoose.setDefaultLanguage is defined
    held,           \* per holder outside the plugin: the array it holds (its own, or a configuration's)
    req,            \* per request of the multi-user scenario: its position and what it read
    lastSet,        \* history: per document, the code of its latest effective setLanguage
    nCalls,         \* history: number of bounded operations performed
    lastCall        \* history: the operation performed by the last step, with its inputs

vars == <<paths, virtuals, heap, schemaOptions, methods, docLanguage, raw, exposes,
          models, connSetter, alias, held, req, lastSet, nCalls, lastCall>>

schemaVars == <<paths, virtuals, heap, schemaOptions, methods>>
docVars == <<docLanguage, raw, exposes, lastSet>>
connVars == <<models, connSetter, alias>>

-----------------------------------------------------------------------------
(* JavaScript values *)

Undefined == "undefined"

\* JavaScript truthiness of a string-or-undefined value ("false" stands for the boolean false)
Truthy(v) == v \notin {Undefined, "", "false"}

\* Array.prototype.indexOf, 0-based, -1 when absent
indexOf(arr, v) ==
    IF \E i \in 1..Len(arr) : arr[i] = v
    THEN (CHOOSE i \in 1..Len(arr) : arr[i] = v /\ \A j \in 1..(i - 1) : arr[j] # v) - 1
    ELSE -1

Range(seq) == {seq[i] : i \in 1..Len(seq)}

-----------------------------------------------------------------------------
(* The declared schemas, before the plugin is attached *)

NoSchema == ""

NoOpts == [intl |-> Undefined, default |-> Undefined, required |-> Undefined,
           defaultAll |-> Undefined, requiredAll |-> Undefined, trim |-> Undefined]

Leaf(path, type, opts) == [path |-> path, type |-> type, schema |-> NoSchema, options |-> opts]
Sub(path, type, sub, opts) == [path |-> path, type |-> type, schema |-> sub, options |-> opts]

Schemas == {"Post", "Blog", "Page", "Comment", "Reply", "Stats", "Album", "Plain"}

Declared(s) ==
    CASE s = "Post" ->
           << Leaf(<<"title">>, "String", [NoOpts EXCEPT !.intl = "true", !.default = "Untitled",
                                                   !.required = "true", !.trim = "true"]),
              Leaf(<<"body">>, "String", [NoOpts EXCEPT !.intl = "true", !.default = "None",
                                                  !.defaultAll = "Empty", !.requiredAll = "true"]),
              Sub(<<"comments">>, "DocumentArray", "Comment", NoOpts) >>
      [] s = "Blog" ->
           << Leaf(<<"name">>, "String", [NoOpts EXCEPT !.intl = "true", !.required = "true"]),
              Sub(<<"comments">>, "DocumentArray", "Comment", NoOpts) >>
      [] s = "Page" ->
           << Leaf(<<"heading">>, "String", [NoOpts EXCEPT !.intl = "true", !.default = "Home"]) >>
      [] s = "Comment" ->
           << Leaf(<<"text">>, "String", [NoOpts EXCEPT !.intl = "true", !.required = "true"]),
              Sub(<<"replies">>, "DocumentArray", "Reply", NoOpts) >>
      [] s = "Reply" ->
           << Leaf(<<"meta", "note">>, "String", [NoOpts EXCEPT !.intl = "true", !.default = "-"]) >>
      [] s = "Stats" ->
           << Leaf(<<"label">>, "String", [NoOpts EXCEPT !.intl = "true"]),
              Leaf(<<"views">>, "Number", [NoOpts EXCEPT !.intl = "true"]) >>
      [] s = "Album" ->
           << Leaf(<<"name">>, "String", [NoOpts EXCEPT !.intl = "true"]),
              Sub(<<"cover">>, "Embedded", "Reply", [NoOpts EXCEPT !.intl = "true"]),
              Sub(<<"photos">>, "DocumentArray", "Reply", [NoOpts EXCEPT !.intl = "true"]) >>
      [] OTHER ->
           << Leaf(<<"name">>, "String", NoOpts) >>

-----------------------------------------------------------------------------
(* The plugin: mongooseIntl(schema, options) *)

\* the options argument of schema.plugin(mongooseIntl, options)
Options(kind, langs, dl) ==
    [given |-> TRUE, langsKind |-> kind, languages |-> langs, defaultLanguage |-> dl]

NoOptions ==
    [given |-> FALSE, langsKind |-> "undefined", languages |-> <<>>, defaultLanguage |-> Undefined]

\* the condition of the first `throw`
languagesMissing(options) ==
    \/ ~options.given
    \/ options.langsKind = "undefined"
    \/ options.langsKind # "array"
    \/ Len(options.languages) = 0

\* mutant: the supplied default language is taken without looking it up in languages
resolveDefaultLanguage_Unchecked(options, languages) ==
    IF ~Truthy(options.defaultLanguage) THEN languages[1] ELSE options.defaultLanguage

\* "the first available language will be used as default if it's not set or unknown value passed"
resolveDefaultLanguage(options, languages) ==
    IF ~Truthy(options.defaultLanguage) \/ indexOf(languages, options.defaultLanguage) = -1
    THEN languages[1]
    ELSE options.defaultLanguage

\* the options of the sub-field of one language
langOptions(stOptions, lang, options) ==
    LET copied   == stOptions
        stripped == IF lang # options.defaultLanguage
                    THEN [copied EXCEPT !.default = Undefined, !.required = Undefined]
                    ELSE copied
        withDef  == IF Truthy(stOptions.defaultAll)
                    THEN [stripped EXCEPT !.default = stOptions.defaultAll]
                    ELSE stripped
    IN IF Truthy(stOptions.requiredAll)
       THEN [withDef EXCEPT !.required = stOptions.requiredAll]
       ELSE withDef

\* schema.remove(path)
schemaRemove(pathList, path) == SelectSeq(pathList, LAMBDA st : st.path # path)

\* schema.add of one path: an existing path is replaced in place, a new one is appended
schemaAdd(pathList, st) ==
    IF \E i \in 1..Len(pathList) : pathList[i].path = st.path
    THEN [i \in 1..Len(pathList) |-> IF pathList[i].path = st.path THEN st ELSE pathList[i]]
    ELSE Append(pathList, st)

RECURSIVE schemaAddAll(_, _, _)
schemaAddAll(pathList, sts, i) ==
    IF i > Len(sts) THEN pathList
    ELSE schemaAddAll(schemaAdd(pathList, sts[i]), sts, i + 1)

\* the state the plugin works on
World ==
    [paths |-> paths, virtuals |-> virtuals, heap |-> heap,
     schemaOptions |-> schemaOptions, methods |-> methods, threw |-> ""]

\* the rewriting of one String field marked intl: the path is removed, two virtuals are
\* defined over it and one sub-field per language is added
rewritePath(w, s, options, po, st) ==
    LET languages == w.heap[po].languages
        cleaned   == [st.options EXCEPT !.intl = Undefined]
        added     == [i \in 1..Len(languages) |->
                        Leaf(st.path \o <<languages[i]>>, "String",
                             langOptions(cleaned, languages[i], options))]
    IN [w EXCEPT !.paths[s] = schemaAddAll(schemaRemove(w.paths[s], st.path), added, 1),
                 !.virtuals[s] = @ \cup {[path |-> st.path, env |-> po],
                                         [path |-> st.path \o <<"all">>, env |-> po]}]

RECURSIVE mongooseIntl(_, _, _)
RECURSIVE eachPathCallback(_, _, _, _, _)
RECURSIVE eachPath(_, _, _, _, _, _)

\* the callback of schema.eachPath
eachPathCallback(w, s, options, po, st) ==
    IF st.schema # NoSchema
    THEN mongooseIntl(w, st.schema,
                      Options("array", w.heap[po].languages, w.heap[po].defaultLanguage))
    ELSE IF ~Truthy(st.options.intl)
    THEN w
    ELSE IF st.type # "String"
    THEN [w EXCEPT !.threw = "Mongoose-intl plugin can be used with String type only"]
    ELSE rewritePath(w, s, options, po, st)

\* schema.eachPath over the paths the schema had when the iteration started;
\* an exception thrown by the callback ends it
eachPath(w, s, options, po, keys, i) ==
    IF i > Len(keys) \/ w.threw # ""
    THEN w
    ELSE eachPath(eachPathCallback(w, s, options, po, keys[i]), s, options, po, keys, i + 1)

mongooseIntl(w, s, options) ==
    IF languagesMissing(options)
    THEN [w EXCEPT !.threw = "Required languages array is missing"]
    ELSE LET po  == Len(w.heap) + 1
             obj == [languages |-> options.languages,
                     defaultLanguage |-> resolveDefaultLanguage(options, options.languages)]
             w1  == [w EXCEPT !.heap = Append(@, obj), !.schemaOptions[s] = po]
             w2  == eachPath(w1, s, options, po, w1.paths[s], 1)
         IN IF w2.threw # "" THEN w2 ELSE [w2 EXCEPT !.methods[s] = TRUE]

-----------------------------------------------------------------------------
(* Documents, models and connections *)

Docs == {"post1", "post2", "comment1", "reply1", "page1"}

DocSchema(d) ==
    CASE d \in {"post1", "post2"} -> "Post"
      [] d = "comment1" -> "Comment"
      [] d = "reply1" -> "Reply"
      [] OTHER -> "Page"

\* document.parent() of an embedded document
Parent(d) == IF d = "reply1" THEN "comment1" ELSE "post1"

TopLevel(d) == d \in {"post1", "post2", "page1"}

\* the fields declared translatable on a document's schema
IntlPaths(s) ==
    {Declared(s)[i].path : i \in {j \in 1..Len(Declared(s)) :
        Declared(s)[j].schema = NoSchema /\ Declared(s)[j].options.intl = "true"}}

\* the keys a stored per-language object may carry
SlotKeys == {"", "en", "de", "fr", "xx"}

EmptySlots == [k \in SlotKeys |-> Undefined]
NoParam == [present |-> FALSE, slots |-> EmptySlots]

Models == {"PostModel", "ArchiveModel", "PageModel", "CommentModel", "PlainModel"}

ModelSchema(m) ==
    CASE m \in {"PostModel", "ArchiveModel"} -> "Post"
      [] m = "PageModel" -> "Page"
      [] m = "CommentModel" -> "Comment"
      [] OTHER -> "Plain"

Conns == {"db1", "db2"}

\* mongoose.connection
DefaultConn == "db1"

\* model.db
ModelConn(m) == IF m \in {"PostModel", "PlainModel"} THEN "db1" ELSE "db2"

-----------------------------------------------------------------------------
(* Document methods *)

\* this.schema.options.mongooseIntl of a schema
pluginOptionsOf(h, so, s) == h[so[s]]

\* document.getLanguages()
getLanguages(h, so, d) == pluginOptionsOf(h, so, DocSchema(d)).languages

\* mutant: the operands of `||` swapped, the schema default always wins
getLanguage_DefaultFirst(h, so, dl, d) ==
    IF Truthy(pluginOptionsOf(h, so, DocSchema(d)).defaultLanguage)
    THEN pluginOptionsOf(h, so, DocSchema(d)).defaultLanguage
    ELSE dl[d]

\* document.getLanguage()
getLanguage(h, so, dl, d) ==
    IF Truthy(dl[d]) THEN dl[d] ELSE pluginOptionsOf(h, so, DocSchema(d)).defaultLanguage

\* document.setLanguage(lang): the new docLanguage map
setLanguage(h, so, dl, d, lang) ==
    IF Truthy(lang) /\ indexOf(getLanguages(h, so, d), lang) # -1
    THEN [dl EXCEPT ![d] = lang]
    ELSE dl

\* document.unsetLanguage()
unsetLanguage(dl, d) == [dl EXCEPT ![d] = Undefined]

-----------------------------------------------------------------------------
(* Model statics *)

RECURSIVE updateLanguage(_, _, _, _, _)
RECURSIVE updateLanguageEachPath(_, _, _, _, _, _)

\* mutant: the schema's own defaultLanguage is not assigned, only the nested schemas are visited
updateLanguage_NestedOnly(h, so, ps, s, lang) ==
    updateLanguageEachPath(h, so, ps, ps[s], lang, 1)

\* mutant: the sub-document schemas met by eachPath are not visited
updateLanguageEachPath_NoDescent(h, so, ps, keys, lang, i) == h

\* updateLanguage(schema, lang): the new heap
updateLanguage(h, so, ps, s, lang) ==
    updateLanguageEachPath([h EXCEPT ![so[s]].defaultLanguage = lang], so, ps, ps[s], lang, 1)

updateLanguageEachPath(h, so, ps, keys, lang, i) ==
    IF i > Len(keys) THEN h
    ELSE updateLanguageEachPath(
            IF keys[i].schema # NoSchema THEN updateLanguage(h, so, ps, keys[i].schema, lang) ELSE h,
            so, ps, keys, lang, i + 1)

\* Model.getLanguages()
modelGetLanguages(h, so, s) == pluginOptionsOf(h, so, s).languages

\* Model.getDefaultLanguage()
getDefaultLanguage(h, so, s) == pluginOptionsOf(h, so, s).defaultLanguage

\* mutant: the code is not looked up in the language list
setDefaultLanguage_Unchecked(h, so, ps, s, lang) ==
    IF Truthy(lang) THEN updateLanguage(h, so, ps, s, lang) ELSE h

\* Model.setDefaultLanguage(lang) of a model of schema s: the new heap
setDefaultLanguage(h, so, ps, s, lang) ==
    IF Truthy(lang) /\ indexOf(modelGetLanguages(h, so, s), lang) # -1
    THEN updateLanguage(h, so, ps, s, lang)
    ELSE h

-----------------------------------------------------------------------------
(* Connection method *)

RECURSIVE connSetDefaultLanguage_FirstOnly(_, _, _, _, _, _)

\* mutant: the loop ends after the first model that has the static
connSetDefaultLanguage_FirstOnly(h, so, ps, registry, lang, i) ==
    IF i > Len(registry) THEN h
    ELSE IF registry[i].statics
    THEN setDefaultLanguage(h, so, ps, ModelSchema(registry[i].name), lang)
    ELSE connSetDefaultLanguage_FirstOnly(h, so, ps, registry, lang, i + 1)

RECURSIVE connSetDefaultLanguage(_, _, _, _, _, _)

\* connection.setDefaultLanguage(lang): every model of this.models that has the static
\* gets the call, in the order of this.models
connSetDefaultLanguage(h, so, ps, registry, lang, i) ==
    IF i > Len(registry) THEN h
    ELSE connSetDefaultLanguage(
            IF registry[i].statics
            THEN setDefaultLanguage(h, so, ps, ModelSchema(registry[i].name), lang)
            ELSE h,
            so, ps, registry, lang, i + 1)

\* the schema's init listener, called with a model that was just compiled
onInit(cs, al, db) ==
    IF cs[db]
    THEN [connSetter |-> cs, alias |-> al]
    ELSE LET cs2 == [cs EXCEPT ![db] = TRUE]
         IN [connSetter |-> cs2, alias |-> IF ~al THEN cs2[DefaultConn] ELSE al]

-----------------------------------------------------------------------------
(* Virtuals *)

RECURSIVE languageOwner(_, _)

\* `while (!self.getLanguage) { self = self.parent(); }`
languageOwner(ex, d) == IF ex[d] THEN d ELSE languageOwner(ex, Parent(d))

\* the getter of the virtual `path`
virtualGet(h, so, dl, ex, rw, d, path) ==
    LET self  == languageOwner(ex, d)
        param == rw[d][path]
    IN IF ~param.present THEN Undefined ELSE param.slots[getLanguage(h, so, dl, self)]

\* document.set(path + '.' + lang, value): the new stored values
docSet(rw, d, path, lang, value) ==
    [rw EXCEPT ![d][path] = [present |-> TRUE, slots |-> [@.slots EXCEPT ![lang] = value]]]

\* mutant: the value is stored under the schema's default language (the setter of the
\* plugin's first version)
virtualSet_DefaultLanguage(h, so, dl, ex, rw, d, path, value) ==
    docSet(rw, d, path, pluginOptionsOf(h, so, DocSchema(d)).defaultLanguage, value)

\* the setter of the virtual `path`
virtualSet(h, so, dl, ex, rw, d, path, value) ==
    LET self == languageOwner(ex, d)
    IN docSet(rw, d, path, getLanguage(h, so, dl, self), value)

\* the getter of the virtual `path.all`: this.getValue(path)
allGet(rw, d, path) == rw[d][path]

\* value[lang] of a JavaScript object
Lookup(value, key) == IF key \in DOMAIN value THEN value[key] ELSE Undefined

\* the object the closure of the virtual `path.all` captured as pluginOptions
allEnv(vs, d, path) ==
    (CHOOSE v \in vs[DocSchema(d)] : v.path = path \o <<"all">>).env

RECURSIVE allSetEach_NoSkip(_, _, _, _, _, _)

\* mutant: a falsy value is stored like any other
allSetEach_NoSkip(rw, d, path, languages, value, i) ==
    IF i > Len(languages) THEN rw
    ELSE allSetEach_NoSkip(docSet(rw, d, path, languages[i], Lookup(value, languages[i])),
                           d, path, languages, value, i + 1)

RECURSIVE allSetEach(_, _, _, _, _, _)

\* the forEach of the setter of `path.all`
allSetEach(rw, d, path, languages, value, i) ==
    IF i > Len(languages) THEN rw
    ELSE allSetEach(
            IF ~Truthy(Lookup(value, languages[i])) THEN rw
            ELSE docSet(rw, d, path, languages[i], Lookup(value, languages[i])),
            d, path, languages, value, i + 1)

\* the setter of the virtual `path.all`
allSet(h, vs, rw, d, path, value) ==
    allSetEach(rw, d, path, h[allEnv(vs, d, path)].languages, value, 1)

-----------------------------------------------------------------------------
(* Initial values *)

\* the schemas as declared, no plugin attached
DeclaredWorld ==
    [paths |-> [s \in Schemas |-> Declared(s)], virtuals |-> [s \in Schemas |-> {}],
     heap |-> <<>>, schemaOptions |-> [s \in Schemas |-> 0],
     methods |-> [s \in Schemas |-> FALSE], threw |-> ""]

MapKeys == {"en", "de", "xx"}
NoMapping == [k \in MapKeys |-> Undefined]

NoCall ==
    [op |-> "none", schema |-> NoSchema, doc |-> "", conn |-> "", code |-> Undefined,
     options |-> NoOptions, threw |-> "", path |-> <<>>, value |-> Undefined,
     mapping |-> NoMapping, lang |-> Undefined]

\* the code outside the plugin that may hold a language array
Holders == {"caller", "fromDoc", "fromModel"}

\* an array held outside the plugin: none, an array of the holder's own, or the very
\* array that is the `languages` of the configuration object heap[ref]
NoArray == [kind |-> "none", ref |-> 0, value |-> <<>>]
OwnArray(v) == [kind |-> "own", ref |-> 0, value |-> v]
ConfigArray(k) == [kind |-> "config", ref |-> k, value |-> <<>>]
NoArrays == [x \in Holders |-> NoArray]

Requests == {"r1", "r2"}
NoReq == [r \in Requests |-> [pc |-> "idle", lang |-> Undefined, atomic |-> TRUE, read |-> Undefined]]

FreshDocs ==
    /\ docLanguage = [d \in Docs |-> Undefined]
    /\ raw = [d \in Docs |-> [p \in IntlPaths(DocSchema(d)) |-> NoParam]]
    /\ exposes = [d \in Docs |-> TopLevel(d)]
    /\ lastSet = [d \in Docs |-> Undefined]

NoConns ==
    /\ models = [c \in Conns |-> <<>>]
    /\ connSetter = [c \in Conns |-> FALSE]
    /\ alias = FALSE

SchemasAre(w) ==
    /\ paths = w.paths
    /\ virtuals = w.virtuals
    /\ heap = w.heap
    /\ schemaOptions = w.schemaOptions
    /\ methods = w.methods

-----------------------------------------------------------------------------
(* Attaching the plugin: schema.plugin(mongooseIntl, options) *)

MaxAttach == 2

LanguageLists == {<<"en", "de">>, <<"de", "en", "fr">>}
DefaultChoices == {Undefined, "de", "xx"}

AttachInputs ==
    {NoOptions, Options("undefined", <<>>, "en"), Options("string", <<>>, "en"),
     Options("array", <<>>, "en")}
    \cup {Options("array", l, dl) : l \in LanguageLists, dl \in DefaultChoices}

\* a language list that holds the empty string, which is also given as the default
EmptyCodeInput == Options("array", <<"en", "">>, "")

AttachTargets == {"Post", "Blog", "Comment", "Stats", "Album"}

InitAttach ==
    /\ SchemasAre(DeclaredWorld)
    /\ FreshDocs
    /\ NoConns
    /\ req = NoReq
    /\ nCalls = 0
    /\ held = NoArrays
    /\ lastCall = NoCall

Plugin(s, options) ==
    /\ nCalls < MaxAttach
    /\ LET w == mongooseIntl(World, s, options)
       IN /\ paths' = w.paths
          /\ virtuals' = w.virtuals
          /\ heap' = w.heap
          /\ schemaOptions' = w.schemaOptions
          /\ methods' = w.methods
          /\ lastCall' = [NoCall EXCEPT !.op = "plugin", !.schema = s, !.options = options,
                                        !.threw = w.threw]
    /\ nCalls' = nCalls + 1
    /\ UNCHANGED <<held, docVars, connVars, req>>

NextAttach ==
    \/ \E s \in AttachTargets, options \in AttachInputs : Plugin(s, options)
    \/ \E s \in AttachTargets : Plugin(s, EmptyCodeInput)

SpecAttach == InitAttach /\ [][NextAttach]_vars

-----------------------------------------------------------------------------
(* Properties of the attachment *)

\* the step just taken was a call of schema.plugin(mongooseIntl, options)
PluginStep == lastCall'.op = "plugin" /\ nCalls' = nCalls + 1

\* languages is missing, not an array or empty
LanguagesInvalid(o) == ~o.given \/ o.langsKind # "array" \/ Len(o.languages) = 0

\* C5 (as stated): attaching with options {languages, defaultLanguage} fails and leaves the
\* schema unmodified when languages is missing, not an array or empty; otherwise the
\* configuration holds languages, and defaultLanguage is the supplied one when that is a
\* member of languages and languages[0] when it is absent or not a member.
C5_ConfigurationAsStated ==
    [][PluginStep =>
        LET o == lastCall'.options
            s == lastCall'.schema
        IN IF LanguagesInvalid(o)
           THEN lastCall'.threw # "" /\ schemaVars' = schemaVars
           ELSE /\ schemaOptions'[s] # 0
                /\ heap'[schemaOptions'[s]].languages = o.languages
                /\ heap'[schemaOptions'[s]].defaultLanguage =
                      IF o.defaultLanguage \in Range(o.languages)
                      THEN o.defaultLanguage ELSE o.languages[1]]_vars

\* C5 (amended): as above, but defaultLanguage is the supplied one only when that is a
\* non-empty member of languages, and languages[0] when it is absent, empty or not a member.
C5_ConfigurationResolved ==
    [][PluginStep =>
        LET o == lastCall'.options
            s == lastCall'.schema
        IN IF LanguagesInvalid(o)
           THEN lastCall'.threw # "" /\ schemaVars' = schemaVars
           ELSE /\ schemaOptions'[s] # 0
                /\ heap'[schemaOptions'[s]].languages = o.languages
                /\ heap'[schemaOptions'[s]].defaultLanguage =
                      IF o.defaultLanguage \in Range(o.languages) /\ o.defaultLanguage # ""
                      THEN o.defaultLanguage ELSE o.languages[1]]_vars

\* C5 witness: a schema that already carries a configuration is attached again with an
\* unknown default language, and its configuration now holds the new list and its first code
C5_Witness ==
    /\ lastCall.op = "plugin"
    /\ nCalls = 2
    /\ lastCall.options = Options("array", <<"de", "en", "fr">>, "xx")
    /\ lastCall.schema = "Post"
    /\ heap[schemaOptions["Post"]] = [languages |-> <<"de", "en", "fr">>, defaultLanguage |-> "de"]
    /\ heap[1].languages = <<"en", "de">>

\* the options the claim C6 gives the sub-field of language lang
ExpectedLangOptions(o, lang, resolvedDefault) ==
    [o EXCEPT !.intl = Undefined,
              !.default = IF o.defaultAll # Undefined THEN o.defaultAll
                          ELSE IF lang = resolvedDefault THEN o.default ELSE Undefined,
              !.required = IF o.requiredAll # Undefined THEN o.requiredAll
                           ELSE IF lang = resolvedDefault THEN o.required ELSE Undefined]

\* C6: after an attachment that succeeds, for every translatable String field and every
\* configured language, the sub-field of the schema's resolved default language keeps the
\* field's default and required, the sub-field of every other language has them stripped,
\* defaultAll / requiredAll become default / required of every sub-field, and the other
\* options are the same on all sub-fields.
C6_SubFieldOptions ==
    [][PluginStep /\ lastCall'.threw = "" =>
        LET s   == lastCall'.schema
            cfg == heap'[schemaOptions'[s]]
        IN \A i \in 1..Len(paths[s]) :
             (paths[s][i].schema = NoSchema /\ paths[s][i].options.intl = "true"
                /\ paths[s][i].type = "String")
             => \A k \in 1..Len(cfg.languages) :
                  \E j \in 1..Len(paths'[s]) :
                     /\ paths'[s][j].path = paths[s][i].path \o <<cfg.languages[k]>>
                     /\ paths'[s][j].options =
                           ExpectedLangOptions(paths[s][i].options, cfg.languages[k],
                                               cfg.defaultLanguage)]_vars

\* C10: attaching the plugin to a schema that has a field marked intl whose type is not
\* String fails, whatever the kind of the field (sub-document fields included).
C10_NonStringIntlFails ==
    [][PluginStep /\ (\E i \in 1..Len(paths[lastCall'.schema]) :
                         /\ paths[lastCall'.schema][i].options.intl = "true"
                         /\ paths[lastCall'.schema][i].type # "String")
        => lastCall'.threw # ""]_vars

\* the String fields a schema declares translatable
TranslatablePaths(s) ==
    {Declared(s)[i].path : i \in {j \in 1..Len(Declared(s)) :
        /\ Declared(s)[j].schema = NoSchema
        /\ Declared(s)[j].type = "String"
        /\ Declared(s)[j].options.intl = "true"}}

\* the positions in schema.paths of the concrete sub-fields stored directly under path p
SubFieldsOf(s, p) ==
    {i \in 1..Len(paths[s]) :
        /\ Len(paths[s][i].path) = Len(p) + 1
        /\ SubSeq(paths[s][i].path, 1, Len(p)) = p}

\* C11, every state: on a schema the plugin has been attached to, each translatable field
\* is no concrete path, is a virtual, and its concrete sub-fields are one per language of
\* the schema's configured language list and none for another code.
C11_OneSlotPerLanguage ==
    \A s \in Schemas :
        methods[s] =>
            \A p \in TranslatablePaths(s) :
                /\ \A i \in 1..Len(paths[s]) : paths[s][i].path # p
                /\ \E v \in virtuals[s] : v.path = p
                /\ {paths[s][i].path[Len(p) + 1] : i \in SubFieldsOf(s, p)}
                      = Range(heap[schemaOptions[s]].languages)
                /\ Cardinality(SubFieldsOf(s, p)) = Len(heap[schemaOptions[s]].languages)

-----------------------------------------------------------------------------
(* Language operations on documents, models and connections *)

\* connection.model(name, schema): the model is compiled with the statics its schema has,
\* registered in connection.models, and the schema's init listeners are called with it
bindModel(ms, cs, al, mt, m) ==
    LET db  == ModelConn(m)
        ev  == IF mt[ModelSchema(m)] THEN onInit(cs, al, db)
               ELSE [connSetter |-> cs, alias |-> al]
    IN [models |-> [ms EXCEPT ![db] = Append(@, [name |-> m, statics |-> mt[ModelSchema(m)]])],
        connSetter |-> ev.connSetter, alias |-> ev.alias]

RECURSIVE bindAll(_, _, _, _)
bindAll(c, mt, order, i) ==
    IF i > Len(order) THEN c
    ELSE bindAll(bindModel(c.models, c.connSetter, c.alias, mt, order[i]), mt, order, i + 1)

Unbound ==
    [models |-> [c \in Conns |-> <<>>], connSetter |-> [c \in Conns |-> FALSE], alias |-> FALSE]

ConnsAre(c) ==
    /\ models = c.models
    /\ connSetter = c.connSetter
    /\ alias = c.alias

\* the application's schemas after its plugin calls
RuntimeWorld(postOptions, pageOptions) ==
    mongooseIntl(mongooseIntl(DeclaredWorld, "Post", postOptions), "Page", pageOptions)

PostSetups == {Options("array", <<"en", "de", "fr">>, "en"), Options("array", <<"de", "en">>, Undefined)}
PageSetups == {Options("array", <<"en", "de">>, "de")}

BindOrder == <<"PostModel", "PlainModel", "PageModel", "CommentModel", "ArchiveModel">>

\* the codes the language setters are called with
CallCodes == {Undefined, "", "en", "de", "fr", "xx"}

\* code is a non-empty member of the language list
ValidCode(languages, code) == code \notin {Undefined, ""} /\ code \in Range(languages)

Init ==
    /\ \E po \in PostSetups, pg \in PageSetups :
          /\ SchemasAre(RuntimeWorld(po, pg))
          /\ ConnsAre(bindAll(Unbound, RuntimeWorld(po, pg).methods, BindOrder, 1))
    /\ docLanguage = [d \in Docs |-> Undefined]
    /\ raw = [d \in Docs |-> [p \in IntlPaths(DocSchema(d)) |-> NoParam]]
    /\ exposes \in {e \in [Docs -> BOOLEAN] : e["reply1"] = FALSE /\ \A d \in Docs : TopLevel(d) => e[d]}
    /\ lastSet = [d \in Docs |-> Undefined]
    /\ req = NoReq
    /\ nCalls = 0
    /\ held = NoArrays
    /\ lastCall = NoCall

SetLanguage(d, code) ==
    /\ exposes[d]
    /\ docLanguage' = setLanguage(heap, schemaOptions, docLanguage, d, code)
    /\ lastSet' = IF ValidCode(heap[schemaOptions[DocSchema(d)]].languages, code)
                  THEN [lastSet EXCEPT ![d] = code] ELSE lastSet
    /\ lastCall' = [NoCall EXCEPT !.op = "setLanguage", !.doc = d, !.code = code]
    /\ UNCHANGED <<held, schemaVars, raw, exposes, connVars, req, nCalls>>

UnsetLanguage(d) ==
    /\ exposes[d]
    /\ docLanguage' = unsetLanguage(docLanguage, d)
    /\ lastSet' = [lastSet EXCEPT ![d] = Undefined]
    /\ lastCall' = [NoCall EXCEPT !.op = "unsetLanguage", !.doc = d]
    /\ UNCHANGED <<held, schemaVars, raw, exposes, connVars, req, nCalls>>

\* a bound model that has the statics
HasStatics(m) ==
    \E i \in 1..Len(models[ModelConn(m)]) :
        models[ModelConn(m)][i].name = m /\ models[ModelConn(m)][i].statics

SetDefaultLanguage(m, code) ==
    /\ HasStatics(m)
    /\ heap' = setDefaultLanguage(heap, schemaOptions, paths, ModelSchema(m), code)
    /\ lastCall' = [NoCall EXCEPT !.op = "setDefaultLanguage", !.schema = ModelSchema(m),
                                  !.code = code]
    /\ UNCHANGED <<held, paths, virtuals, schemaOptions, methods, docVars, connVars, req, nCalls>>

ConnSetDefaultLanguage(db, code) ==
    /\ connSetter[db]
    /\ heap' = connSetDefaultLanguage(heap, schemaOptions, paths, models[db], code, 1)
    /\ lastCall' = [NoCall EXCEPT !.op = "connSetDefaultLanguage", !.conn = db, !.code = code]
    /\ UNCHANGED <<held, paths, virtuals, schemaOptions, methods, docVars, connVars, req, nCalls>>

LanguageDocs == {"post1", "post2", "comment1"}
LanguageModels == {"PostModel", "PageModel"}

Next ==
    \/ \E d \in LanguageDocs, code \in CallCodes : SetLanguage(d, code)
    \/ \E d \in LanguageDocs : UnsetLanguage(d)
    \/ \E m \in LanguageModels, code \in CallCodes : SetDefaultLanguage(m, code)
    \/ \E db \in Conns, code \in CallCodes : ConnSetDefaultLanguage(db, code)

Spec == Init /\ [][Next]_vars

-----------------------------------------------------------------------------
(* Properties of the language operations *)

\* the configuration of a document's schema
DocConfig(d) == heap[schemaOptions[DocSchema(d)]]

\* C1, every state: getLanguage() of a document is the code of its latest effective
\* setLanguage since construction or the last unsetLanguage, and the current
\* defaultLanguage of its schema when there is none.
C1_LanguageIsOverrideOrDefault ==
    \A d \in Docs :
        exposes[d] =>
            getLanguage(heap, schemaOptions, docLanguage, d) =
                IF lastSet[d] # Undefined THEN lastSet[d] ELSE DocConfig(d).defaultLanguage

\* C1, every step: a schema-level or connection-level setDefaultLanguage leaves the language
\* of every document with an override unchanged, and a schema-level setDefaultLanguage(c)
\* with c configured makes c the language of every document of the schema without one.
C1_DefaultChangeStep ==
    /\ lastCall'.op \in {"setDefaultLanguage", "connSetDefaultLanguage"} =>
          \A d \in Docs :
              exposes[d] /\ lastSet[d] # Undefined =>
                  getLanguage(heap', schemaOptions', docLanguage', d) =
                      getLanguage(heap, schemaOptions, docLanguage, d)
    /\ (lastCall'.op = "setDefaultLanguage"
          /\ ValidCode(heap[schemaOptions[lastCall'.schema]].languages, lastCall'.code)) =>
          \A d \in Docs :
              exposes[d] /\ lastSet[d] = Undefined /\ DocSchema(d) = lastCall'.schema =>
                  getLanguage(heap', schemaOptions', docLanguage', d) = lastCall'.code

\* C1: the two together
C1_GetLanguage == []C1_LanguageIsOverrideOrDefault /\ [][C1_DefaultChangeStep]_vars

\* C1 witness: post1 was given 'de', the default was then changed from its initial value,
\* post1 was unset and follows the new default; post2 keeps its override
C1_Witness ==
    /\ lastCall.op = "unsetLanguage"
    /\ lastCall.doc = "post1"
    /\ lastSet["post2"] = "de"
    /\ DocConfig("post1").languages = <<"en", "de", "fr">>
    /\ DocConfig("post1").defaultLanguage = "fr"
    /\ getLanguage(heap, schemaOptions, docLanguage, "post1") = "fr"
    /\ getLanguage(heap, schemaOptions, docLanguage, "post2") = "de"

\* the language list every model of the connection that has the setter rejects the code with
InvalidForConn(db, code) ==
    \A i \in 1..Len(models[db]) :
        models[db][i].statics =>
            ~ValidCode(heap[schemaOptions[ModelSchema(models[db][i].name)]].languages, code)

\* the step just taken was a language setter called with a code that is empty or not in
\* the configured language list
InvalidSetterStep ==
    \/ /\ lastCall'.op = "setLanguage"
       /\ ~ValidCode(DocConfig(lastCall'.doc).languages, lastCall'.code)
    \/ /\ lastCall'.op = "setDefaultLanguage"
       /\ ~ValidCode(heap[schemaOptions[lastCall'.schema]].languages, lastCall'.code)
    \/ /\ lastCall'.op = "connSetDefaultLanguage"
       /\ InvalidForConn(lastCall'.conn, lastCall'.code)

\* C4: setLanguage on a document and setDefaultLanguage at schema or connection scope,
\* called with a code that is empty or not in the configured language list, change
\* nothing: no document override, no defaultLanguage of any schema (nested ones
\* included), no result of getLanguage().
C4_InvalidCodeIsNoOp ==
    [][InvalidSetterStep =>
        /\ docLanguage' = docLanguage
        /\ \A s \in Schemas :
              schemaOptions[s] # 0 =>
                  /\ schemaOptions'[s] = schemaOptions[s]
                  /\ heap'[schemaOptions'[s]] = heap[schemaOptions[s]]
        /\ \A d \in Docs :
              exposes[d] => getLanguage(heap', schemaOptions', docLanguage', d) =
                               getLanguage(heap, schemaOptions, docLanguage, d)
        /\ lastCall'.threw = ""]_vars

\* C4 witness: with overrides and defaults already changed, a connection-level call with
\* an unconfigured code has just been made
C4_Witness ==
    /\ lastCall.op = "connSetDefaultLanguage"
    /\ lastCall.code = "xx"
    /\ lastCall.conn = "db2"
    /\ docLanguage["post1"] = "de"
    /\ DocConfig("post2").defaultLanguage = "fr"
    /\ DocConfig("page1").defaultLanguage = "en"

-----------------------------------------------------------------------------
(* Reading and writing translatable fields *)

MaxWrites == 1

\* the values written to a field
Values == {"", "Hi"}

\* the mappings written to `path.all`
Mappings ==
    {m \in [MapKeys -> {Undefined, "", "Ciao"}] : m["xx"] # "" /\ m["de"] # Undefined}

\* a per-language object as loaded from the database
Stored == [present |-> TRUE,
           slots |-> [EmptySlots EXCEPT !["en"] = "Hello", !["de"] = "Hallo"]]

\* the language of the top-level document that embeds d (d itself when it is top-level)
RECURSIVE TopLevelOf(_)
TopLevelOf(d) == IF TopLevel(d) THEN d ELSE TopLevelOf(Parent(d))

TopLanguage(d) == getLanguage(heap, schemaOptions, docLanguage, TopLevelOf(d))

InitRW ==
    /\ \E po \in PostSetups, pg \in PageSetups :
          /\ SchemasAre(RuntimeWorld(po, pg))
          /\ ConnsAre(bindAll(Unbound, RuntimeWorld(po, pg).methods, BindOrder, 1))
    /\ docLanguage = [d \in Docs |-> Undefined]
    /\ \E stored \in {NoParam, Stored} :
          raw = [d \in Docs |-> [p \in IntlPaths(DocSchema(d)) |-> stored]]
    /\ exposes = [d \in Docs |-> TopLevel(d)]
    /\ lastSet = [d \in Docs |-> Undefined]
    /\ req = NoReq
    /\ nCalls = 0
    /\ held = NoArrays
    /\ lastCall = NoCall

\* document.set(path, value) / document[path] = value on a translatable field
Write(d, path, value) ==
    /\ nCalls < MaxWrites
    /\ raw' = virtualSet(heap, schemaOptions, docLanguage, exposes, raw, d, path, value)
    /\ nCalls' = nCalls + 1
    /\ lastCall' = [NoCall EXCEPT !.op = "write", !.doc = d, !.path = path, !.value = value,
                                  !.lang = TopLanguage(d)]
    /\ UNCHANGED <<held, schemaVars, docLanguage, exposes, lastSet, connVars, req>>

\* document.set(path + '.all', mapping)
WriteAll(d, path, mapping) ==
    /\ nCalls < MaxWrites
    /\ raw' = allSet(heap, virtuals, raw, d, path, mapping)
    /\ nCalls' = nCalls + 1
    /\ lastCall' = [NoCall EXCEPT !.op = "writeAll", !.doc = d, !.path = path,
                                  !.mapping = mapping]
    /\ UNCHANGED <<held, schemaVars, docLanguage, exposes, lastSet, connVars, req>>

NextRW ==
    \/ \E code \in CallCodes : SetLanguage("post1", code)
    \/ \E code \in CallCodes : SetDefaultLanguage("PostModel", code)
    \/ \E path \in IntlPaths("Post"), value \in Values : Write("post1", path, value)
    \/ \E path \in IntlPaths("Post"), mapping \in Mappings : WriteAll("post1", path, mapping)

SpecRW == InitRW /\ [][NextRW]_vars

-----------------------------------------------------------------------------
(* Properties of reading and writing *)

\* every stored value other than slot `lang` of field `path` of document d is as before
OthersUnchanged(d, path, langs) ==
    /\ \A k \in SlotKeys \ langs : raw'[d][path].slots[k] = raw[d][path].slots[k]
    /\ \A d2 \in Docs : \A p2 \in IntlPaths(DocSchema(d2)) :
          (d2 # d \/ p2 # path) => raw'[d2][p2] = raw[d2][p2]

\* C2: writing v to a translatable field p of a document whose current language is the
\* configured language L, then reading p with the language still L, returns v; p.all
\* then maps L to v, and every other language of p and every other field is as before.
C2_WriteReadRoundTrip ==
    [][(lastCall'.op = "write" /\ nCalls' = nCalls + 1 /\ TopLevel(lastCall'.doc)) =>
        LET d == lastCall'.doc
            p == lastCall'.path
            L == getLanguage(heap, schemaOptions, docLanguage, d)
        IN L \in Range(DocConfig(d).languages) =>
             /\ getLanguage(heap', schemaOptions', docLanguage', d) = L
             /\ virtualGet(heap', schemaOptions', docLanguage', exposes', raw', d, p)
                   = lastCall'.value
             /\ allGet(raw', d, p).present
             /\ allGet(raw', d, p).slots[L] = lastCall'.value
             /\ OthersUnchanged(d, p, {L})]_vars

\* C2 witness: post1, switched to 'de' while the default is 'en', was written "Hi"; the
\* stored German value was replaced, the English one kept
C2_Witness ==
    /\ lastCall.op = "write"
    /\ lastCall.doc = "post1"
    /\ lastCall.path = <<"title">>
    /\ lastCall.value = "Hi"
    /\ docLanguage["post1"] = "de"
    /\ DocConfig("post1").defaultLanguage = "en"
    /\ raw["post1"][<<"title">>].slots["de"] = "Hi"
    /\ raw["post1"][<<"title">>].slots["en"] = "Hello"
    /\ raw["post1"][<<"body">>] = Stored

\* C3: writing a mapping m to p.all stores m[L] into slot p.L for exactly the configured
\* languages L for which m has a truthy value: a key of m that is not configured creates
\* or changes no slot, and a configured language whose value is absent or falsy keeps its
\* stored value.
C3_WriteAllStoresTruthyConfigured ==
    [][(lastCall'.op = "writeAll" /\ nCalls' = nCalls + 1) =>
        LET d == lastCall'.doc
            p == lastCall'.path
            m == lastCall'.mapping
            stores == {k \in Range(DocConfig(d).languages) : Truthy(Lookup(m, k))}
        IN /\ \A k \in stores : raw'[d][p].slots[k] = m[k]
           /\ OthersUnchanged(d, p, stores)]_vars

\* C3 witness: a mapping with an empty English value, a German value and a value for the
\* unconfigured 'xx' was written over stored English and German values
C3_Witness ==
    /\ lastCall.op = "writeAll"
    /\ lastCall.doc = "post1"
    /\ lastCall.path = <<"title">>
    /\ lastCall.mapping = [NoMapping EXCEPT !["en"] = "", !["de"] = "Ciao", !["xx"] = "Ciao"]
    /\ raw["post1"][<<"title">>].slots["en"] = "Hello"
    /\ raw["post1"][<<"title">>].slots["de"] = "Ciao"
    /\ raw["post1"][<<"title">>].slots["xx"] = Undefined

-----------------------------------------------------------------------------
(* Sub-documents *)

SubDocs == {"comment1", "reply1"}

InitSub ==
    /\ \E po \in PostSetups, pg \in PageSetups :
          /\ SchemasAre(RuntimeWorld(po, pg))
          /\ ConnsAre(bindAll(Unbound, RuntimeWorld(po, pg).methods, BindOrder, 1))
    /\ docLanguage = [d \in Docs |-> Undefined]
    /\ raw = [d \in Docs |-> [p \in IntlPaths(DocSchema(d)) |-> Stored]]
    /\ exposes \in {e \in [Docs -> BOOLEAN] : \A d \in Docs : TopLevel(d) => e[d]}
    /\ lastSet = [d \in Docs |-> Undefined]
    /\ req = NoReq
    /\ nCalls = 0
    /\ held = NoArrays
    /\ lastCall = NoCall

NextSub ==
    \/ \E d \in {"post1"} \cup SubDocs, code \in CallCodes : SetLanguage(d, code)
    \/ \E code \in CallCodes : SetDefaultLanguage("PostModel", code)
    \/ \E d \in SubDocs : \E path \in IntlPaths(DocSchema(d)), value \in Values :
          Write(d, path, value)

SpecSub == InitSub /\ [][NextSub]_vars

\* the stored value of field `path` of d for language lang
StoredFor(d, path, lang) ==
    IF raw[d][path].present THEN raw[d][path].slots[lang] ELSE Undefined

\* C7, every state: reading a translatable field of a sub-document returns its stored
\* value for the current language of the top-level document that embeds it.
C7_SubDocumentReadsTopLanguage ==
    \A d \in SubDocs : \A p \in IntlPaths(DocSchema(d)) :
        virtualGet(heap, schemaOptions, docLanguage, exposes, raw, d, p)
            = StoredFor(d, p, TopLanguage(d))

\* C7, every step: writing a translatable field of a sub-document stores into the slot
\* of the current language of the top-level document that embeds it.
C7_SubDocumentWriteStep ==
    (lastCall'.op = "write" /\ nCalls' = nCalls + 1 /\ lastCall'.doc \in SubDocs) =>
        /\ raw'[lastCall'.doc][lastCall'.path].slots[TopLanguage(lastCall'.doc)] = lastCall'.value
        /\ OthersUnchanged(lastCall'.doc, lastCall'.path, {TopLanguage(lastCall'.doc)})

\* C7: a translatable field of a sub-document, at any depth, is read and written in the
\* current language of its top-level document; no language state of the sub-document
\* decides.
C7_SubDocumentFollowsTopLevel ==
    []C7_SubDocumentReadsTopLanguage /\ [][C7_SubDocumentWriteStep]_vars

-----------------------------------------------------------------------------
(* Connections: binding models and the connection-level setter *)

InitConn ==
    /\ \E po \in PostSetups, pg \in PageSetups : SchemasAre(RuntimeWorld(po, pg))
    /\ FreshDocs
    /\ NoConns
    /\ req = NoReq
    /\ nCalls = 0
    /\ held = NoArrays
    /\ lastCall = NoCall

Registered(db) == {models[db][i].name : i \in 1..Len(models[db])}

\* connection.model(name, schema) for a model not yet compiled
BindModel(m) ==
    /\ m \notin Registered(ModelConn(m))
    /\ LET c == bindModel(models, connSetter, alias, methods, m)
       IN /\ models' = c.models
          /\ connSetter' = c.connSetter
          /\ alias' = c.alias
    /\ lastCall' = [NoCall EXCEPT !.op = "bindModel", !.conn = ModelConn(m),
                                  !.schema = ModelSchema(m)]
    /\ UNCHANGED <<held, schemaVars, docVars, req, nCalls>>

NextConn ==
    \/ \E m \in Models : BindModel(m)
    \/ \E db \in Conns, code \in CallCodes : ConnSetDefaultLanguage(db, code)

SpecConn == InitConn /\ [][NextConn]_vars

\* Model.getDefaultLanguage() of a model, Undefined when its schema has no configuration
ModelDefault(h, m) ==
    IF schemaOptions[ModelSchema(m)] = 0 THEN Undefined
    ELSE h[schemaOptions[ModelSchema(m)]].defaultLanguage

\* the models of connection db that have the schema-level setter and accept the code
Receivers(db, code) ==
    {models[db][i].name : i \in {j \in 1..Len(models[db]) :
        /\ models[db][j].statics
        /\ ValidCode(heap[schemaOptions[ModelSchema(models[db][j].name)]].languages, code)}}

\* the models registered on another connection, or registered without the setter
Bystanders(db) ==
    {m \in Models : \E c \in Conns : \E i \in 1..Len(models[c]) :
        models[c][i].name = m /\ (c # db \/ ~models[c][i].statics)}

\* s and the sub-document schemas nested in s, at any depth
RECURSIVE NestedSchemas(_)
NestedSchemas(s) ==
    {s} \cup UNION {NestedSchemas(paths[s][i].schema) :
                        i \in {j \in 1..Len(paths[s]) : paths[s][j].schema # NoSchema}}

\* C8 (as stated): one connection-level setDefaultLanguage(code) makes code the default
\* language of every model registered on the connection whose schema uses the plugin
\* (and lists the code), and leaves the models of other connections and the models
\* without the schema-level setter unchanged.
C8_ConnectionFanOutAsStated ==
    [][lastCall'.op = "connSetDefaultLanguage" =>
        /\ \A m \in Receivers(lastCall'.conn, lastCall'.code) :
              ModelDefault(heap', m) = lastCall'.code
        /\ \A m \in Bystanders(lastCall'.conn) :
              ModelDefault(heap', m) = ModelDefault(heap, m)]_vars

\* C8 (amended): as above, but a model of another connection or without the setter is
\* left unchanged only if its schema is neither the schema of a model of this connection
\* that received the call nor a sub-document schema nested in one.
C8_ConnectionFanOut ==
    [][lastCall'.op = "connSetDefaultLanguage" =>
        /\ \A m \in Receivers(lastCall'.conn, lastCall'.code) :
              ModelDefault(heap', m) = lastCall'.code
        /\ \A m \in Bystanders(lastCall'.conn) :
              (\A r \in Receivers(lastCall'.conn, lastCall'.code) :
                    ModelSchema(m) \notin NestedSchemas(ModelSchema(r)))
              => ModelDefault(heap', m) = ModelDefault(heap, m)]_vars

\* C8 witness: three models were bound on db2, the sub-document schema's model first; one
\* call moved all three from 'de' to 'en', and the model of the other connection that
\* shares the Post schema moved with them
C8_Witness ==
    /\ lastCall.op = "connSetDefaultLanguage"
    /\ lastCall.conn = "db2"
    /\ lastCall.code = "en"
    /\ Len(models["db2"]) = 3
    /\ models["db2"][1].name = "CommentModel"
    /\ "PostModel" \in Registered("db1")
    /\ heap[schemaOptions["Post"]].languages = <<"de", "en">>
    /\ \A m \in Models \ {"PlainModel"} : ModelDefault(heap, m) = "en"

-----------------------------------------------------------------------------
(* Requests of several users on one schema *)

\* the document the requests serialize, with a value for every language
Stored3 == [present |-> TRUE,
            slots |-> [EmptySlots EXCEPT !["en"] = "Hello", !["de"] = "Hallo", !["fr"] = "Salut"]]

RequestDoc == "post2"
RequestPath == <<"title">>
UserLanguages == {"en", "de", "fr"}

InitReq ==
    /\ SchemasAre(RuntimeWorld(Options("array", <<"en", "de", "fr">>, "en"),
                               Options("array", <<"en", "de">>, "de")))
    /\ ConnsAre(bindAll(Unbound, RuntimeWorld(Options("array", <<"en", "de", "fr">>, "en"),
                                              Options("array", <<"en", "de">>, "de")).methods,
                        BindOrder, 1))
    /\ docLanguage = [d \in Docs |-> Undefined]
    /\ raw = [d \in Docs |-> [p \in IntlPaths(DocSchema(d)) |-> Stored3]]
    /\ exposes = [d \in Docs |-> TopLevel(d)]
    /\ lastSet = [d \in Docs |-> Undefined]
    /\ req = NoReq
    /\ nCalls = 0
    /\ held = NoArrays
    /\ lastCall = NoCall

\* the callback sets the language and serializes in the same turn of the event loop
ServeAtomic(r, lang) ==
    /\ req[r].pc = "idle"
    /\ heap' = setDefaultLanguage(heap, schemaOptions, paths, "Post", lang)
    /\ req' = [req EXCEPT ![r] = [pc |-> "done", lang |-> lang, atomic |-> TRUE,
                 read |-> virtualGet(heap', schemaOptions, docLanguage, exposes, raw,
                                     RequestDoc, RequestPath)]]
    /\ lastCall' = [NoCall EXCEPT !.op = "serveAtomic", !.code = lang]
    /\ UNCHANGED <<held, paths, virtuals, schemaOptions, methods, docVars, connVars, nCalls>>

\* the language is set, then the request waits for the query
BeginSplit(r, lang) ==
    /\ req[r].pc = "idle"
    /\ heap' = setDefaultLanguage(heap, schemaOptions, paths, "Post", lang)
    /\ req' = [req EXCEPT ![r] = [pc |-> "waiting", lang |-> lang, atomic |-> FALSE,
                                  read |-> Undefined]]
    /\ lastCall' = [NoCall EXCEPT !.op = "beginSplit", !.code = lang]
    /\ UNCHANGED <<held, paths, virtuals, schemaOptions, methods, docVars, connVars, nCalls>>

\* the query's callback serializes the documents
FinishSplit(r) ==
    /\ req[r].pc = "waiting"
    /\ req' = [req EXCEPT ![r].pc = "done",
                          ![r].read = virtualGet(heap, schemaOptions, docLanguage, exposes, raw,
                                                 RequestDoc, RequestPath)]
    /\ lastCall' = [NoCall EXCEPT !.op = "finishSplit"]
    /\ UNCHANGED <<held, schemaVars, docVars, connVars, nCalls>>

NextReq ==
    \/ \E r \in Requests, lang \in UserLanguages : ServeAtomic(r, lang)
    \/ \E r \in Requests, lang \in UserLanguages : BeginSplit(r, lang)
    \/ \E r \in Requests : FinishSplit(r)

SpecReq == InitReq /\ [][NextReq]_vars

\* C9: under every interleaving, a request that sets its language and reads in one
\* uninterrupted step reads the values of its own language.
C9_AtomicRequestReadsOwnLanguage ==
    \A r \in Requests :
        (req[r].pc = "done" /\ req[r].atomic) =>
            req[r].read = raw[RequestDoc][RequestPath].slots[req[r].lang]

\* C9 witness: one request, suspended between its setDefaultLanguage and its read, has
\* read the values of the other request's language, while the other request, which ran
\* in between as one step, has read its own
C9_Witness ==
    /\ req["r1"] = [pc |-> "done", lang |-> "de", atomic |-> FALSE, read |-> "Salut"]
    /\ req["r2"] = [pc |-> "done", lang |-> "fr", atomic |-> TRUE, read |-> "Salut"]

-----------------------------------------------------------------------------
(* A sub-document schema embedded by several parent schemas *)

SharedTargets == {"Post", "Blog"}
SharedInputs == {Options("array", l, Undefined) : l \in LanguageLists}
SharedModels == {"PostModel", "CommentModel"}
SharedCodes == {"", "de", "fr", "xx"}

InitShared ==
    /\ SchemasAre(DeclaredWorld)
    /\ FreshDocs
    /\ NoConns
    /\ req = NoReq
    /\ nCalls = 0
    /\ held = NoArrays
    /\ lastCall = NoCall

NextShared ==
    \/ \E s \in SharedTargets, options \in SharedInputs : Plugin(s, options)
    \/ \E m \in SharedModels : BindModel(m)
    \/ \E m \in SharedModels, code \in SharedCodes : SetDefaultLanguage(m, code)
    \/ \E db \in Conns, code \in SharedCodes : ConnSetDefaultLanguage(db, code)

SpecShared == InitShared /\ [][NextShared]_vars

\* C13, every state: in the configuration of every schema that carries one, nested
\* sub-document schemas included, defaultLanguage is one of the languages of that
\* same configuration.
C13_DefaultLanguageIsConfigured ==
    \A s \in Schemas :
        schemaOptions[s] # 0 =>
            heap[schemaOptions[s]].defaultLanguage \in Range(heap[schemaOptions[s]].languages)

\* the step is a schema-level setDefaultLanguage(code) with code in the schema's list
SchemaSetterAccepted ==
    /\ lastCall'.op = "setDefaultLanguage"
    /\ ValidCode(heap[schemaOptions[lastCall'.schema]].languages, lastCall'.code)

\* C14, every schema-level setDefaultLanguage(code) with code in the schema's language
\* list: afterwards code is the default language of the schema and of every sub-document
\* schema nested in it at any depth, no configuration's languages changed, and every
\* model and every document without a language of its own on these schemas reports code.
C14_SchemaSetterReachesNestedSchemas ==
    [][SchemaSetterAccepted =>
        /\ \A t \in NestedSchemas(lastCall'.schema) :
              /\ schemaOptions[t] # 0
              /\ heap'[schemaOptions[t]].defaultLanguage = lastCall'.code
        /\ Len(heap') = Len(heap)
        /\ \A k \in 1..Len(heap) : heap'[k].languages = heap[k].languages
        /\ \A m \in Models :
              ModelSchema(m) \in NestedSchemas(lastCall'.schema) =>
                getDefaultLanguage(heap', schemaOptions, ModelSchema(m)) = lastCall'.code
        /\ \A d \in Docs :
              (DocSchema(d) \in NestedSchemas(lastCall'.schema) /\ ~Truthy(docLanguage[d])) =>
                getLanguage(heap', schemaOptions, docLanguage, d) = lastCall'.code]_vars

\* Post.setDefaultLanguage('fr') was accepted and reached Comment and Reply, whose
\* language list came from another parent schema
C14_Witness ==
    /\ lastCall.op = "setDefaultLanguage"
    /\ lastCall.schema = "Post"
    /\ lastCall.code = "fr"
    /\ schemaOptions["Post"] # 0 /\ schemaOptions["Comment"] # 0 /\ schemaOptions["Reply"] # 0
    /\ heap[schemaOptions["Post"]].defaultLanguage = "fr"
    /\ heap[schemaOptions["Comment"]].defaultLanguage = "fr"
    /\ heap[schemaOptions["Reply"]].defaultLanguage = "fr"
    /\ heap[schemaOptions["Comment"]].languages = <<"en", "de">>

-----------------------------------------------------------------------------
(* Language arrays held outside the plugin *)

MaxArrayOps == 3

\* `options.languages.slice(0)`: the configuration gets a new array, so the array the
\* caller passed stays the caller's own
callerArrayAfterPlugin(arr) == arr

\* the array `return this.schema.options.mongooseIntl.languages` hands out
languagesReturned(so, s) == ConfigArray(so[s])

\* the elements of a held array
elementsOf(h, arr) == IF arr.kind = "config" THEN h[arr.ref].languages ELSE arr.value

\* an in-place change of a held array to the elements v: the new heap and the new arrays
arrayAssign(h, hd, x, v) ==
    IF hd[x].kind = "config"
    THEN [heap |-> [h EXCEPT ![hd[x].ref].languages = v], held |-> hd]
    ELSE [heap |-> h, held |-> [hd EXCEPT ![x].value = v]]

\* array.push(code)
arrayPush(h, hd, x, code) == arrayAssign(h, hd, x, Append(elementsOf(h, hd[x]), code))

\* array.pop()
arrayPop(h, hd, x) ==
    LET e == elementsOf(h, hd[x])
    IN arrayAssign(h, hd, x, IF Len(e) = 0 THEN e ELSE SubSeq(e, 1, Len(e) - 1))

PushCodes == {"xx"}
AliasSchemas == {"Post"}
AliasDocs == {"post1"}
AliasModels == {"PostModel"}
AliasCodes == {"de", "xx"}

InitAlias ==
    /\ SchemasAre(DeclaredWorld)
    /\ FreshDocs
    /\ NoConns
    /\ req = NoReq
    /\ nCalls = 0
    /\ held \in {[NoArrays EXCEPT !["caller"] = OwnArray(l)] : l \in LanguageLists}
    /\ lastCall = NoCall

\* schema.plugin(mongooseIntl, {languages: array}) with the array the caller holds
PluginWithArray(s) ==
    /\ nCalls < MaxArrayOps
    /\ schemaOptions[s] = 0
    /\ LET options == Options("array", held["caller"].value, Undefined)
           w == mongooseIntl(World, s, options)
       IN /\ paths' = w.paths
          /\ virtuals' = w.virtuals
          /\ heap' = w.heap
          /\ schemaOptions' = w.schemaOptions
          /\ methods' = w.methods
          /\ lastCall' = [NoCall EXCEPT !.op = "plugin", !.schema = s, !.options = options,
                                        !.threw = w.threw]
    /\ held' = [held EXCEPT !["caller"] = callerArrayAfterPlugin(@)]
    /\ nCalls' = nCalls + 1
    /\ UNCHANGED <<docVars, connVars, req>>

\* `var list = doc.getLanguages()`
DocGetLanguages(d) ==
    /\ methods[DocSchema(d)]
    /\ exposes[d]
    /\ held' = [held EXCEPT !["fromDoc"] = languagesReturned(schemaOptions, DocSchema(d))]
    /\ lastCall' = [NoCall EXCEPT !.op = "docGetLanguages", !.doc = d]
    /\ UNCHANGED <<schemaVars, docVars, connVars, req, nCalls>>

\* `var list = Model.getLanguages()`
ModelGetLanguages(m) ==
    /\ HasStatics(m)
    /\ held' = [held EXCEPT !["fromModel"] = languagesReturned(schemaOptions, ModelSchema(m))]
    /\ lastCall' = [NoCall EXCEPT !.op = "modelGetLanguages", !.schema = ModelSchema(m)]
    /\ UNCHANGED <<schemaVars, docVars, connVars, req, nCalls>>

\* `list.push(code)` on a held array
ArrayPush(x, code) ==
    /\ nCalls < MaxArrayOps
    /\ held[x].kind # "none"
    /\ LET r == arrayPush(heap, held, x, code)
       IN heap' = r.heap /\ held' = r.held
    /\ lastCall' = [NoCall EXCEPT !.op = "arrayPush", !.doc = x, !.code = code]
    /\ nCalls' = nCalls + 1
    /\ UNCHANGED <<paths, virtuals, schemaOptions, methods, docVars, connVars, req>>

\* `list.pop()` on a held array
ArrayPop(x) ==
    /\ nCalls < MaxArrayOps
    /\ held[x].kind # "none"
    /\ LET r == arrayPop(heap, held, x)
       IN heap' = r.heap /\ held' = r.held
    /\ lastCall' = [NoCall EXCEPT !.op = "arrayPop", !.doc = x]
    /\ nCalls' = nCalls + 1
    /\ UNCHANGED <<paths, virtuals, schemaOptions, methods, docVars, connVars, req>>

NextAlias ==
    \/ \E s \in AliasSchemas : PluginWithArray(s)
    \/ \E m \in AliasModels : BindModel(m)
    \/ \E d \in AliasDocs : DocGetLanguages(d)
    \/ \E m \in AliasModels : ModelGetLanguages(m)
    \/ \E x \in Holders, code \in PushCodes : ArrayPush(x, code)
    \/ \E x \in Holders : ArrayPop(x)
    \/ \E d \in AliasDocs, code \in AliasCodes : methods[DocSchema(d)] /\ SetLanguage(d, code)
    \/ \E m \in AliasModels, code \in AliasCodes : SetDefaultLanguage(m, code)

SpecAlias == InitAlias /\ [][NextAlias]_vars

\* the default language of every configuration object
DefaultsOf(h) == [k \in 1..Len(h) |-> h[k].defaultLanguage]

\* a change made to an array held outside the plugin
ArrayChangeStep == lastCall'.op \in {"arrayPush", "arrayPop"} /\ nCalls' = nCalls + 1

\* C12, every step that changes an array held outside the plugin (the array passed as
\* options.languages, or one returned by the document-level or the model-level
\* getLanguages()): the languages of every configuration are unchanged, and so is what
\* getLanguages(), setLanguage and setDefaultLanguage do for every code.
C12_LanguagesClosedToOutside ==
    [][ArrayChangeStep =>
        /\ \A k \in 1..Len(heap) : heap'[k].languages = heap[k].languages
        /\ \A d \in AliasDocs :
              methods[DocSchema(d)] =>
                /\ getLanguages(heap', schemaOptions, d) = getLanguages(heap, schemaOptions, d)
                /\ \A code \in CallCodes :
                      setLanguage(heap', schemaOptions, docLanguage, d, code)
                        = setLanguage(heap, schemaOptions, docLanguage, d, code)
        /\ \A s \in AliasSchemas :
              methods[s] =>
                \A code \in CallCodes :
                    DefaultsOf(setDefaultLanguage(heap', schemaOptions, paths, s, code))
                      = DefaultsOf(setDefaultLanguage(heap, schemaOptions, paths, s, code))]_vars

====
